---- MODULE Spec2Model ----
(***************************************************************************)
(* A model of lira/tui/windows.py: the WindowContainer page stack and its  *)
(* subclasses ContentArea (document renderer), SidebarMenu (navigation     *)
(* menu with a back button) and StatusBar (status line with delayed        *)
(* notifications).                                                         *)
(*                                                                         *)
(* Three specifications share the variables:                               *)
(*   Spec        one stack component of any class under push/pop/reset     *)
(*   SpecNotify  the StatusBar under update_status and notify tasks        *)
(*   SpecRender  ContentArea.render_section on a document tree             *)
(* Time is counted in ticks of 0.1 s, the length of notify's warm-up.      *)
(***************************************************************************)
EXTENDS Integers, Sequences, FiniteSets, TLC

VARIABLES
    cls,        \* the class of the component under study
    pages,      \* self.pages
    has_focus,  \* the window of tui.app.layout that has the input focus
    last,       \* observation of the last stack operation (its inputs and effects)
    history,    \* StatusBar.history
    tasks,      \* the tasks created by StatusBar.notify, in creation order
    note,       \* observation of the notify tasks (who is shown, what was overwritten)
    render      \* the call of ContentArea.render_section in progress

vars == <<cls, pages, has_focus, last, history, tasks, note, render>>

----------------------------------------------------------------------------
(* Bounds of the model *)

MaxDepth == 4       \* push is offered while the stack is shorter than this
MaxCalls == 2       \* notify and update_status are called at most this often in all
MaxDelay == 2       \* the longest delay given to notify, in ticks
MaxChildren == 2    \* the rendered Section has at most this many children
RecursionLimit == 3 \* the interpreter's recursion limit, scaled to the documents

(* asyncio.sleep(0.1): one tick *)
WarmUp == 1

None == [widget |-> "None"]        \* no widget given
NoWindow == "none"                 \* the layout has no focusable window
Classes == {"WindowContainer", "ContentArea", "SidebarMenu", "StatusBar"}
\* opaque widgets handed to push and reset
Views == {[widget |-> "View", name |-> "v1"], [widget |-> "View", name |-> "v2"]}
Windows == {"w1", "w2"}             \* focusable windows of the layout
Texts == {"A", "B"}                 \* notification texts
Delays == {0, 1, MaxDelay}          \* delays in ticks: none, one tick, the longest

----------------------------------------------------------------------------
(* WindowContainer and its subclasses *)

\* StatusBar._get_status_area(status): a one-line read-only TextArea
_get_status_area(status) == [widget |-> "TextArea", text |-> status]

\* _get_default_container, per class
_get_default_container(c) ==
    CASE c = "ContentArea" -> [widget |-> "TextArea", text |-> "Welcome to Lira!"]
      [] c = "StatusBar"   -> _get_status_area("")
      [] OTHER             -> [widget |-> "Label", text |-> "Empty container"]

\* ContentArea._box(body)
_box(body) == [widget |-> "Box", body |-> body]

\* variant of get_container: the bottom page
get_container_First(c, p) ==
    IF p # <<>> THEN p[1] ELSE _get_default_container(c)

\* WindowContainer.get_container
get_container(c, p) ==
    IF p # <<>> THEN p[Len(p)] ELSE _get_default_container(c)

\* ContentArea.get_container: the same choice, wrapped in a padded Box
ContentArea_get_container(c, p) ==
    IF p # <<>> THEN _box(p[Len(p)]) ELSE _box(_get_default_container(c))

\* the container the DynamicContainer of a component of class c shows
shown_container(c, p) ==
    IF c = "ContentArea" THEN ContentArea_get_container(c, p) ELSE get_container(c, p)

\* the view the component presents: the Box of a ContentArea is layout padding
\* around the view, every other class shows the view itself
current(c, p) ==
    IF c = "ContentArea" THEN shown_container(c, p).body ELSE shown_container(c, p)

\* WindowContainer.focus: window is next(layout.get_focusable_windows(), None)
focus(window, focused) == IF window # NoWindow THEN window ELSE focused

\* the outcome of an operation: the new pages, whether the focus hook ran,
\* how often set_title ran, and the exception raised ("none" when it returned)
Outcome(p, f, t, e) == [pages |-> p, focus |-> f, set_title |-> t, error |-> e]

\* list.pop(): IndexError on an empty list
list_pop(p) ==
    IF p = <<>> THEN Outcome(p, FALSE, 0, "IndexError")
    ELSE Outcome(SubSeq(p, 1, Len(p) - 1), FALSE, 0, "none")

\* variant of push: the new view takes the place of the top one
push_Replace(p, widget) ==
    Outcome(IF p = <<>> THEN <<widget>> ELSE [p EXCEPT ![Len(p)] = widget],
            TRUE, 0, "none")

\* variant of push: the focus hook is not called
push_NoFocus(p, widget) == Outcome(Append(p, widget), FALSE, 0, "none")

\* WindowContainer.push
push(p, widget) == Outcome(Append(p, widget), TRUE, 0, "none")

\* variant of pop: no early return at the floor
pop_NoFloor(p) ==
    LET r == list_pop(p)
    IN  IF r.error # "none" THEN r ELSE [r EXCEPT !.focus = TRUE]

\* variant of pop: the focus hook runs at the floor too
pop_FocusAlways(p) ==
    IF Len(p) <= 1 THEN Outcome(p, TRUE, 0, "none")
    ELSE [list_pop(p) EXCEPT !.focus = TRUE]

\* variant of pop: the bottom view is removed
pop_Bottom(p) ==
    IF Len(p) <= 1 THEN Outcome(p, FALSE, 0, "none")
    ELSE Outcome(Tail(p), TRUE, 0, "none")

\* variant of pop: two views are removed
pop_DropTwo(p) ==
    IF Len(p) <= 1 THEN Outcome(p, FALSE, 0, "none")
    ELSE Outcome(SubSeq(p, 1, Len(p) - 2), TRUE, 0, "none")

\* WindowContainer.pop
pop(p) ==
    IF Len(p) <= 1 THEN Outcome(p, FALSE, 0, "none")
    ELSE LET r == list_pop(p)
         IN  IF r.error # "none" THEN r ELSE [r EXCEPT !.focus = TRUE]

\* variant of SidebarMenu.pop: set_title only when a view was removed
SidebarMenu_pop_OnRemoveOnly(p) ==
    LET r == pop(p)
    IN  IF r.error = "none" /\ Len(r.pages) <= 1 /\ Len(p) > 1
        THEN [r EXCEPT !.set_title = 1] ELSE r

\* SidebarMenu.pop: super().pop(), then set_title() when at most one page is left
SidebarMenu_pop(p) ==
    LET r == pop(p)
    IN  IF r.error = "none" /\ Len(r.pages) <= 1
        THEN [r EXCEPT !.set_title = 1] ELSE r

\* variant of reset: the view is added on top of the old pages
reset_Keep(c, p, widget) ==
    Outcome(Append(p, IF widget # None THEN widget ELSE _get_default_container(c)),
            FALSE, 0, "none")

\* WindowContainer.reset: widget or the default container, as the only page
reset(c, p, widget) ==
    Outcome(<<IF widget # None THEN widget ELSE _get_default_container(c)>>,
            FALSE, 0, "none")

\* variant of the filter: len(self.pages) >= 1
back_button_filter_AtOne(p) == Len(p) >= 1

\* SidebarMenu.back_button: Condition(lambda: len(self.pages) > 1)
back_button_filter(p) == Len(p) > 1

----------------------------------------------------------------------------
(* Stack operations as steps *)

NoOp == [op |-> "init", via |-> "none", widget |-> None, before |-> <<>>,
         focus |-> FALSE, set_title |-> 0, error |-> "none",
         focus_before |-> NoWindow, window |-> NoWindow, initialized |-> FALSE,
         focus_saw |-> <<>>, prev_op |-> "init", prev_before |-> <<>>]

\* the pages the focus hook finds: self.focus() is the last statement of push and
\* pop, so the pages are those after the change
hook_sees(before, after) == after

\* apply the outcome r of operation op; window is what the layout offers to focus
Apply(op, via, widget, r, window) ==
    /\ pages' = r.pages
    /\ has_focus' = IF r.focus THEN focus(window, has_focus) ELSE has_focus
    /\ last' = [op |-> op, via |-> via, widget |-> widget, before |-> pages,
                focus |-> r.focus, set_title |-> r.set_title, error |-> r.error,
                focus_before |-> has_focus, window |-> window,
                initialized |-> last.initialized \/ op \in {"push", "reset"},
                focus_saw |-> IF r.focus THEN hook_sees(pages, r.pages) ELSE <<>>,
                prev_op |-> last.op, prev_before |-> last.before]
    /\ UNCHANGED <<cls, history, tasks, note, render>>

Push ==
    \E widget \in Views, window \in Windows \cup {NoWindow} :
        /\ Len(pages) < MaxDepth
        /\ Apply("push", "call", widget, push(pages, widget), window)

Pop ==
    \E window \in Windows \cup {NoWindow} :
        /\ cls \in Classes
        /\ Apply("pop", "call", None,
                 IF cls = "SidebarMenu" THEN SidebarMenu_pop(pages) ELSE pop(pages),
                 window)

Reset ==
    \E widget \in Views \cup {None} :
        /\ cls \in Classes
        /\ Apply("reset", "call", widget, reset(cls, pages, widget), NoWindow)

\* SidebarMenu: Button("Back", handler=self.pop), shown while the filter holds
BackButton ==
    \E window \in Windows \cup {NoWindow} :
        /\ cls = "SidebarMenu"
        /\ back_button_filter(pages)
        /\ Apply("pop", "back_button", None, SidebarMenu_pop(pages), window)

\* SidebarMenu.get_key_bindings: Keys.Backspace calls self.pop()
Backspace ==
    \E window \in Windows \cup {NoWindow} :
        /\ cls = "SidebarMenu"
        /\ Apply("pop", "backspace", None, SidebarMenu_pop(pages), window)

\* the DynamicContainer asks for the container to show; last.widget is the answer
GetContainer ==
    /\ cls \in Classes
    /\ Apply("get_container", "call", shown_container(cls, pages),
             Outcome(pages, FALSE, 0, "none"), NoWindow)

\* render_section has not been called
NotRendering ==
    [pc |-> "idle", doc |-> None, stack |-> <<>>, result |-> <<>>, before |-> <<>>]

\* nothing notified yet: no task's text is shown, no update_status was called
NoTasks == [shown_by |-> 0, corrupted |-> FALSE, direct |-> 0, log |-> <<>>]

Init ==
    /\ cls \in Classes
    /\ pages = <<>>
    /\ has_focus = NoWindow
    /\ last = NoOp
    /\ history = <<>>
    /\ tasks = <<>>
    /\ note = NoTasks
    /\ render = NotRendering

Next == Push \/ Pop \/ Reset \/ BackButton \/ Backspace \/ GetContainer

Spec == Init /\ [][Next]_vars

----------------------------------------------------------------------------
(* Claims about the page stack, checked under Spec *)

Depth == Len(pages)
DepthBefore == Len(last.before)

\* C1: for a component of any class, once a push or a reset has been performed,
\* the page sequence is never empty again: depth >= 1 in every reachable state.
C1_NeverEmpty == last.initialized => Depth >= 1

\* a pop at depth 1 of a stack that was pushed or reset before
C1_Witness == last.initialized /\ last.op = "pop" /\ DepthBefore = 1 /\ Depth = 1

\* C2: pop() at depth <= 1 is a no-op: the pages are unchanged, the focus hook does
\* not run (the input focus stays where it was) and no exception is raised.
C2_PopAtFloor ==
    (last.op = "pop" /\ DepthBefore <= 1) =>
        /\ pages = last.before
        /\ ~last.focus
        /\ has_focus = last.focus_before
        /\ last.error = "none"

\* a pop at depth 1 while the layout has a focusable window other than the focused one
C2_Witness ==
    /\ last.op = "pop" /\ DepthBefore = 1
    /\ last.window # NoWindow /\ last.window # last.focus_before

\* C3: reset(v) leaves exactly one page, v, whatever was stacked before, and
\* current() is v; reset() without a view leaves the class's default view.
C3_Reset ==
    last.op = "reset" =>
        /\ Depth = 1
        /\ last.error = "none"
        /\ last.widget # None => current(cls, pages) = last.widget
        /\ last.widget = None => current(cls, pages) = _get_default_container(cls)

\* a reset with a view that discards a stack of two or more other views
C3_Witness ==
    /\ last.op = "reset" /\ DepthBefore >= 2 /\ last.widget \in Views
    /\ \A i \in DOMAIN last.before : last.before[i] # last.widget

\* C4: push(v) appends v: current() is v, the depth grows by exactly one and the
\* views stacked before are still there, below v, in their order.
C4_Push ==
    last.op = "push" =>
        /\ current(cls, pages) = last.widget
        /\ Depth = DepthBefore + 1
        /\ SubSeq(pages, 1, DepthBefore) = last.before
        /\ last.error = "none"

\* a push on two different views
C4_Witness ==
    last.op = "push" /\ DepthBefore >= 2 /\ last.before[1] # last.before[2]

\* C5: pop() at depth > 1 removes exactly the top view: the depth shrinks by one,
\* current() is the view that was directly below and the others keep their order.
C5_Pop ==
    (last.op = "pop" /\ DepthBefore > 1) =>
        /\ Depth = DepthBefore - 1
        /\ current(cls, pages) = last.before[DepthBefore - 1]
        /\ pages = SubSeq(last.before, 1, DepthBefore - 1)
        /\ last.error = "none"

\* a pop that leaves two different views
C5_Witness ==
    last.op = "pop" /\ DepthBefore >= 3 /\ last.before[1] # last.before[2]

\* C6: in the SidebarMenu the back button is visible iff depth > 1; an operation
\* makes it visible exactly when it takes the depth from 1 to 2, and hides it
\* exactly when it takes the depth from above 1 back to 1.
C6_BackButton ==
    cls = "SidebarMenu" =>
        /\ back_button_filter(pages) <=> Depth > 1
        /\ (~back_button_filter(last.before) /\ back_button_filter(pages))
              <=> (DepthBefore = 1 /\ Depth = 2)
        /\ (back_button_filter(last.before) /\ ~back_button_filter(pages))
              <=> (DepthBefore > 1 /\ Depth = 1)

\* the back button was pressed at depth 2 and is hidden again
C6_Witness ==
    cls = "SidebarMenu" /\ last.via = "back_button" /\ DepthBefore = 2 /\ Depth = 1

\* C7 as stated: in the SidebarMenu (once it has a page) a pop invokes set_title
\* exactly when it takes the depth from 2 to 1, and never when it removes nothing.
C7_Original ==
    (cls = "SidebarMenu" /\ last.op = "pop" /\ last.initialized) =>
        (last.set_title = 1 <=> (DepthBefore = 2 /\ Depth = 1))

\* C7 amended: in the SidebarMenu set_title is invoked, once, by exactly the pops
\* that end at depth <= 1: the pop from 2 to 1 and every pop that removes nothing;
\* not by a pop that leaves depth > 1, a push or a reset.
C7_TitleReset ==
    cls = "SidebarMenu" =>
        /\ last.set_title \in {0, 1}
        /\ last.set_title = 1 <=> (last.op = "pop" /\ Depth <= 1)

\* Backspace at the menu root: nothing is removed and the title is reset
C7_Witness ==
    /\ cls = "SidebarMenu" /\ last.via = "backspace"
    /\ DepthBefore = 1 /\ Depth = 1 /\ last.set_title = 1

\* C16: the focus hook runs on every push and on every pop that removes a view,
\* and it finds the pages as they are after the change; it moves the input focus to
\* the first focusable window, and leaves the focus where it was when there is none.
C16_FocusHook ==
    /\ last.op = "push" => last.focus
    /\ (last.op = "pop" /\ Depth < DepthBefore) => last.focus
    /\ last.focus =>
          /\ last.focus_saw = pages
          /\ last.window = NoWindow => has_focus = last.focus_before
          /\ last.window # NoWindow => has_focus = last.window

\* a pop removed a view while a window had the focus and the layout had no
\* focusable window
C16_Witness ==
    /\ last.op = "pop" /\ Depth < DepthBefore
    /\ last.window = NoWindow /\ last.focus_before # NoWindow

\* C17 as stated, the Box of a ContentArea read as padding around the view it
\* returns: get_container returns the last pushed or reset view when there are
\* pages, and the default view exactly when there are none.
C17_Original ==
    last.op = "get_container" =>
        LET view == IF cls = "ContentArea" THEN last.widget.body ELSE last.widget
        IN  /\ pages # <<>> => view = pages[Len(pages)]
            /\ view = _get_default_container(cls) <=> pages = <<>>

\* C17 amended: get_container returns the top page when there are pages and the
\* class's default view when there are none, a ContentArea wrapping either in a
\* padded Box; the default view is also what it returns after reset() without a
\* view, which stores it as the only page; reading leaves the pages as they are.
C17_Current ==
    last.op = "get_container" =>
        LET wrap(v) == IF cls = "ContentArea" THEN _box(v) ELSE v
        IN  /\ pages = last.before
            /\ pages # <<>> => last.widget = wrap(pages[Len(pages)])
            /\ pages = <<>> => last.widget = wrap(_get_default_container(cls))
            /\ last.widget = wrap(_get_default_container(cls)) =>
                  \/ pages = <<>>
                  \/ pages[Len(pages)] \notin Views

\* the container is read with two different views stacked
C17_Witness ==
    /\ last.op = "get_container" /\ Depth >= 2
    /\ pages[Len(pages)] # pages[1]

\* C20: at depth >= 1, push(v) followed at once by pop() leaves the pages exactly
\* as they were before the push.
C20_PushPop ==
    (last.op = "pop" /\ last.prev_op = "push" /\ Len(last.prev_before) >= 1) =>
        pages = last.prev_before

\* a push of another view than the top one, then a pop, on two stacked views
C20_Witness ==
    /\ last.op = "pop" /\ last.prev_op = "push" /\ Len(last.prev_before) >= 2
    /\ last.before[DepthBefore] # last.prev_before[Len(last.prev_before)]
    /\ last.prev_before[1] # last.prev_before[2]

----------------------------------------------------------------------------
(* StatusBar: update_status and notify *)

\* the status text on display
status_text(p) == current("StatusBar", p).text

\* variant of update_status: the status area is not replaced
update_status_NoReset(h, p, status) ==
    [history |-> Append(h, status), pages |-> p, invalidate |-> TRUE]

\* variant of update_status: the history is overwritten
update_status_Rewrite(h, p, status) ==
    [history |-> <<status>>,
     pages |-> reset("StatusBar", p, _get_status_area(status)).pages,
     invalidate |-> TRUE]

\* StatusBar.update_status: append to the history, reset to a new status area, redraw
update_status(h, p, status) ==
    [history |-> Append(h, status),
     pages |-> reset("StatusBar", p, _get_status_area(status)).pages,
     invalidate |-> TRUE]

\* variant of notify: the tasks in flight are cancelled
notify_Cancel(ts, text, delay) ==
    Append([i \in DOMAIN ts |-> [ts[i] EXCEPT !.pc = "done"]],
           [text |-> text, delay |-> delay, pc |-> "created", timer |-> 0, waited |-> 0])

\* StatusBar.notify: asyncio.create_task(_main()); the tasks already created are untouched
notify(ts, text, delay) ==
    Append(ts, [text |-> text, delay |-> delay, pc |-> "created", timer |-> 0, waited |-> 0])

\* variant of the sleeps: they return at once
sleep_over_NoWait(t) == TRUE

\* await asyncio.sleep(...) returns once the time slept for has passed
sleep_over(t) == t.timer = 0

\* the text the second update_status of _main is called with (the default, "")
\* variant of the clear: the text is shown again
clear_text_Repeat(t) == t.text

clear_text(t) == ""

\* one more entry of the observation log: who called update_status, in which phase,
\* and how many ticks it had waited since its text was shown
Logged(i, phase, waited) ==
    Append(note.log, [task |-> i, phase |-> phase, waited |-> waited])

Notify ==
    \E text \in Texts, delay \in Delays :
        /\ Len(tasks) + note.direct < MaxCalls
        /\ tasks' = notify(tasks, text, delay)
        /\ UNCHANGED <<cls, pages, has_focus, last, history, note, render>>

\* the task starts running: await asyncio.sleep(0.1)
TaskStart(i) ==
    /\ i \in DOMAIN tasks
    /\ tasks[i].pc = "created"
    /\ tasks' = [tasks EXCEPT ![i].pc = "warmup", ![i].timer = WarmUp]
    /\ UNCHANGED <<cls, pages, has_focus, last, history, note, render>>

\* the warm-up is over: self.update_status(text); await asyncio.sleep(delay)
TaskShow(i) ==
    /\ i \in DOMAIN tasks
    /\ tasks[i].pc = "warmup"
    /\ sleep_over(tasks[i])
    /\ LET u == update_status(history, pages, tasks[i].text)
       IN  /\ history' = u.history
           /\ pages' = u.pages
    /\ tasks' = [tasks EXCEPT ![i].pc = "delay", ![i].timer = tasks[i].delay,
                              ![i].waited = 0]
    /\ note' = [note EXCEPT !.shown_by = i, !.log = Logged(i, "show", 0)]
    /\ UNCHANGED <<cls, has_focus, last, render>>

\* the delay is over: self.update_status()
TaskClear(i) ==
    /\ i \in DOMAIN tasks
    /\ tasks[i].pc = "delay"
    /\ sleep_over(tasks[i])
    /\ LET u == update_status(history, pages, clear_text(tasks[i]))
       IN  /\ history' = u.history
           /\ pages' = u.pages
    /\ tasks' = [tasks EXCEPT ![i].pc = "done"]
    /\ note' = [note EXCEPT
                  !.shown_by = 0,
                  !.corrupted = \/ note.corrupted
                                \/ /\ note.shown_by \in DOMAIN tasks
                                   /\ note.shown_by # i
                                   /\ tasks[note.shown_by].pc = "delay"
                                   /\ tasks[note.shown_by].timer > 0
                                   /\ status_text(pages) = tasks[note.shown_by].text,
                  !.log = Logged(i, "clear", tasks[i].waited)]
    /\ UNCHANGED <<cls, has_focus, last, render>>

\* 0.1 s passes: every running sleep has one tick less to go
Tick ==
    /\ \E i \in DOMAIN tasks : tasks[i].timer > 0
    /\ tasks' = [i \in DOMAIN tasks |->
                   [tasks[i] EXCEPT
                      !.timer = IF @ > 0 THEN @ - 1 ELSE 0,
                      !.waited = IF tasks[i].pc = "delay" /\ @ < tasks[i].delay
                                 THEN @ + 1 ELSE @]]
    /\ UNCHANGED <<cls, pages, has_focus, last, history, note, render>>

\* update_status called directly by the application
UpdateStatus ==
    \E status \in Texts \cup {""} :
        /\ Len(tasks) + note.direct < MaxCalls
        /\ LET u == update_status(history, pages, status)
           IN  /\ history' = u.history
               /\ pages' = u.pages
        /\ note' = [note EXCEPT !.shown_by = 0, !.direct = @ + 1,
                                !.log = Logged(0, "direct", 0)]
        /\ UNCHANGED <<cls, has_focus, last, tasks, render>>

InitNotify ==
    /\ cls = "StatusBar"
    /\ pages = <<>>
    /\ has_focus = NoWindow
    /\ last = NoOp
    /\ history = <<>>
    /\ tasks = <<>>
    /\ note = NoTasks
    /\ render = NotRendering

TaskRun(i) == TaskStart(i) \/ TaskShow(i) \/ TaskClear(i)

NextNotify ==
    \/ Notify
    \/ UpdateStatus
    \/ Tick
    \/ \E i \in 1..MaxCalls : TaskStart(i)
    \/ \E i \in 1..MaxCalls : TaskShow(i)
    \/ \E i \in 1..MaxCalls : TaskClear(i)

\* the event loop runs every task whose sleep is over, and time passes
SpecNotify ==
    /\ InitNotify
    /\ [][NextNotify]_vars
    /\ WF_vars(Tick)
    /\ \A i \in 1..MaxCalls : WF_vars(TaskRun(i))

----------------------------------------------------------------------------
(* Claims about the StatusBar, checked under SpecNotify *)

\* one notify was called and update_status was not called by anyone else
OneNotify == Len(tasks) = 1 /\ note.direct = 0

\* what a single notify has appended and put on display, by the place of its task
C8_Single ==
    OneNotify =>
        LET t == tasks[1]
        IN  /\ t.pc \in {"created", "warmup"} => history = <<>>
            /\ t.pc = "delay" => history = <<t.text>> /\ status_text(pages) = t.text
            /\ t.pc = "done" =>
                  /\ history = <<t.text, "">>
                  /\ status_text(pages) = ""
                  /\ note.log[2].task = 1 /\ note.log[2].waited >= t.delay

FirstDone == tasks # <<>> /\ tasks[1].pc = "done"

\* C8: a single notify(text, delay) with nothing else in flight appends exactly two
\* entries: text, on display from then on, and then "", no earlier than delay ticks
\* after text was shown; before the text is shown nothing is appended, and the
\* sequence always runs to its end, where the status on display is empty.
C8_Notify == []C8_Single /\ (tasks # <<>> ~> FirstDone)

\* a single notification with the longest delay has been shown and cleared
C8_Witness ==
    /\ OneNotify /\ tasks[1].pc = "done" /\ tasks[1].delay = MaxDelay
    /\ history = <<tasks[1].text, "">>

\* a notify leaves every task already created as it was
C9_NotCancelled ==
    [][Len(tasks') > Len(tasks) => SubSeq(tasks', 1, Len(tasks)) = tasks]_vars

\* a task whose sleep is over can take its next step, whatever the others do
C9_NotQueued ==
    \A i \in DOMAIN tasks :
        (tasks[i].pc # "done" /\ tasks[i].timer = 0) => ENABLED TaskRun(i)

\* C9: notify sequences run unsynchronized: a notify leaves every task already
\* created as it was (none is cancelled), and no task waits for another one (a task
\* whose sleep is over can always take its next step); so the clear of one
\* sequence can blank the other's text before that one's delay is over.
C9_Unsynchronized == C9_NotCancelled /\ []C9_NotQueued

\* the interleaving [A, B, "", ""] in which A's clear blanked B's text while B's
\* delay was still running
C9_Witness ==
    /\ history = <<"A", "B", "", "">>
    /\ note.corrupted
    /\ note.log[3].task = 1 /\ note.log[2].task = 2

IsPrefix(a, b) == Len(a) <= Len(b) /\ SubSeq(b, 1, Len(a)) = a

\* a step that changes the history appends one entry to it
C15_Appends ==
    [][history' # history =>
          (Len(history') = Len(history) + 1 /\ IsPrefix(history, history'))]_vars

\* every call of update_status, whoever made it, has its entry
C15_EveryCall == Len(note.log) = Len(history)

\* C15: the history is append-only: every update_status, hence every phase of every
\* notify sequence under any interleaving, appends exactly one entry at the end, and
\* no step removes, reorders or rewrites an entry: the history before a step is a
\* prefix of the history after it.
C15_AppendOnly == C15_Appends /\ []C15_EveryCall

\* two notify sequences have interleaved their four entries
C15_Witness ==
    /\ Len(history) = 4 /\ Len(tasks) = 2
    /\ note.log[1].task = 1 /\ note.log[2].task = 2
    /\ note.log[3].task = 2 /\ note.log[4].task = 1

\* C18: under update_status and notify, in any interleaving, the StatusBar has at
\* most one page, and once the history is not empty the status on display is the
\* last entry of the history.
C18_StatusShown ==
    /\ Len(pages) <= 1
    /\ history # <<>> =>
          /\ Len(pages) = 1
          /\ status_text(pages) = history[Len(history)]

\* a text is on display after an earlier notification was cleared
C18_Witness ==
    /\ Len(history) >= 3
    /\ history[Len(history)] # ""
    /\ history[Len(history) - 1] = ""

AllDone == tasks # <<>> /\ \A i \in DOMAIN tasks : tasks[i].pc = "done"

\* C19: once all of the n notify sequences started have finished (and nobody else
\* called update_status), the status on display is empty, the history has exactly
\* 2n entries, the last one is "", and every call has exactly two entries: its
\* text and, somewhere after it, its "".
C19_AllDone ==
    (AllDone /\ note.direct = 0) =>
        /\ Len(history) = 2 * Len(tasks)
        /\ status_text(pages) = ""
        /\ history[Len(history)] = ""
        /\ \A i \in DOMAIN tasks :
              /\ Cardinality({k \in DOMAIN note.log : note.log[k].task = i}) = 2
              /\ \E a, b \in DOMAIN history :
                    /\ a < b
                    /\ note.log[a].task = i /\ history[a] = tasks[i].text
                    /\ note.log[b].task = i /\ history[b] = ""

\* two overlapping notifications of different texts are over, the first one
\* cleared before the second one was
C19_Witness ==
    /\ AllDone /\ note.direct = 0 /\ Len(tasks) = 2
    /\ tasks[1].text # tasks[2].text
    /\ history = <<tasks[1].text, tasks[2].text, "", "">>
    /\ note.log[3].task = 1 /\ note.log[4].task = 2
    /\ tasks[2].delay > tasks[1].delay

----------------------------------------------------------------------------
(* ContentArea: the document renderer *)

\* A text is the sequence of its lines; a formatted text is a sequence of
\* fragments (style, text); content is a sequence of formatted texts.

\* a document node: tagname, options.title, options.language, text(), children
Node(tag, title, language, text, children) ==
    [tagname |-> tag, title |-> title, language |-> language, text |-> text,
     children |-> children]

Leaf(tag, line) == Node(tag, <<>>, "", <<line>>, <<>>)
Paragraph(children) == Node("Paragraph", <<>>, "", <<>>, children)
Section(title, children) == Node("Section", <<title>>, "", <<>>, children)
CodeBlock(language) == Node("CodeBlock", <<>>, language, <<"x = 1", "", "y = 2">>, <<>>)

SeqUpTo(S, n) == UNION {[1..k -> S] : k \in 0..n}

TextLeaves == {Leaf("Text", "A"), Leaf("Text", "B"), Leaf("Strong", "S"),
               Leaf("Emphasis", "E")}
Paragraphs ==
    {Paragraph(<<l>>) : l \in TextLeaves}
        \cup {Paragraph(<<>>), Paragraph(<<Leaf("Text", "A"), Leaf("Strong", "S")>>)}
Blocks ==
    Paragraphs \cup {CodeBlock("python"), CodeBlock("nolang"),
                     Leaf("TestBlock", ">>> 1"), Leaf("Comment", "#")}
InnerSections == {Section("U", <<>>), Section("U", <<Paragraph(<<Leaf("Text", "B")>>)>>)}

\* the documents handed to render_section
Docs == {Section("T", cs) : cs \in SeqUpTo(Blocks \cup InnerSections, MaxChildren)}

\* variant of the styles: everything in the style of Text
style_Plain(tag) == "class:text"

\* ContentArea.style
style(tag) ==
    CASE tag = "Section"  -> "class:title"
      [] tag = "Text"     -> "class:text"
      [] tag = "Strong"   -> "class:strong"
      [] tag = "Emphasis" -> "class:emphasis"

\* prompt_toolkit's to_formatted_text(text, style): one fragment
to_formatted_text(text, st) == <<[style |-> st, text |-> text]>>

\* ContentArea._get_separator: [to_formatted_text("\n\n")]
_get_separator == <<to_formatted_text(<<"", "", "">>, "")>>

\* textwrap.indent(text, "  "): the prefix goes before every line that is not blank
indent(text) == [i \in DOMAIN text |-> IF text[i] = "" THEN "" ELSE "  " \o text[i]]

\* lira.tui.utils.get_lexer(language): a lexer, or None
get_lexer(language) == IF language = "python" THEN "PythonLexer" ELSE "None"

\* PygmentsTokens(pygments.lex(code, lexer)): one token per line of the code
PygmentsTokens(code) ==
    [i \in DOMAIN code |-> [style |-> "class:pygments", text |-> <<code[i]>>]]

\* variant of _parse_code_block: the text is not indented
_parse_code_block_NoIndent(node) ==
    IF get_lexer(node.language) # "None"
    THEN <<PygmentsTokens(node.text)>>
    ELSE <<to_formatted_text(node.text, "class:text")>>

\* ContentArea._parse_code_block
_parse_code_block(node) ==
    LET code == indent(node.text)
    IN  IF get_lexer(node.language) # "None"
        THEN <<PygmentsTokens(code)>>
        ELSE <<to_formatted_text(code, "class:text")>>

\* prompt_toolkit's merge_formatted_text: the fragments of all items, in order
RECURSIVE merge_formatted_text(_)
merge_formatted_text(content) ==
    IF content = <<>> THEN <<>>
    ELSE Head(content) \o merge_formatted_text(Tail(content))

\* lira.tui.widgets.FormattedTextArea(text, scrollbar=True, focusable=True)
FormattedTextArea(text) == [widget |-> "FormattedTextArea", text |-> text]

\* variant: self._get_content(child)
recursion_target_Child(node, child) == child

\* the node _get_content is called with for a child whose tag is Section:
\* self._get_content(node), the node being rendered
recursion_target(node, child) == node

\* a new activation of _get_content(node): content starts with the title of a Section
Frame(node) ==
    [node |-> node, i |-> 1,
     content |-> IF node.tagname = "Section"
                 THEN <<to_formatted_text(node.title, style("Section"))>>
                 ELSE <<>>]

\* the stack after content.extend(extra) in the running activation
Extend(stack, extra) ==
    [stack EXCEPT ![Len(stack)].content = @ \o extra]

\* the stack after the running activation goes on to its next child
Advance(stack) == [stack EXCEPT ![Len(stack)].i = @ + 1]

\* self._get_content(node) is called: one more activation, or RecursionError, which
\* nothing catches, so that it leaves render_section
Call(stack, node) ==
    IF Len(stack) >= RecursionLimit
    THEN [render EXCEPT !.pc = "RecursionError", !.stack = <<>>]
    ELSE [render EXCEPT !.pc = "running", !.stack = Append(stack, Frame(node))]

Running == render.pc = "running"
Top == render.stack[Len(render.stack)]
HasChild == Running /\ Top.i <= Len(Top.node.children)
Child == Top.node.children[Top.i]

\* render_section(section) is called
RenderSection ==
    /\ render.pc = "idle"
    /\ render' = [Call(<<>>, render.doc) EXCEPT !.before = pages]
    /\ UNCHANGED <<cls, pages, has_focus, last, history, tasks, note>>

\* tag == "Section": content.extend(self._get_content(node))
ChildSection ==
    /\ HasChild
    /\ Child.tagname = "Section"
    /\ render' = Call(render.stack, recursion_target(Top.node, Child))
    /\ UNCHANGED <<cls, pages, has_focus, last, history, tasks, note>>

\* tag == "Paragraph": the separator, then content.extend(self._get_content(child))
ChildParagraph ==
    /\ HasChild
    /\ Child.tagname = "Paragraph"
    /\ render' = Call(Extend(render.stack, _get_separator), Child)
    /\ UNCHANGED <<cls, pages, has_focus, last, history, tasks, note>>

\* tag == "CodeBlock": the separator, then the parsed code block
ChildCodeBlock ==
    /\ HasChild
    /\ Child.tagname = "CodeBlock"
    /\ render' = [render EXCEPT !.stack =
                    Advance(Extend(render.stack,
                                   _get_separator \o _parse_code_block(Child)))]
    /\ UNCHANGED <<cls, pages, has_focus, last, history, tasks, note>>

\* tag == "TestBlock": a fixed placeholder
ChildTestBlock ==
    /\ HasChild
    /\ Child.tagname = "TestBlock"
    /\ render' = [render EXCEPT !.stack =
                    Advance(Extend(render.stack,
                                   <<to_formatted_text(<<"", "", " [TestBlock]">>, "")>>))]
    /\ UNCHANGED <<cls, pages, has_focus, last, history, tasks, note>>

\* tag in ["Text", "Strong", "Emphasis"]: the text of the child in the tag's style
ChildText ==
    /\ HasChild
    /\ Child.tagname \in {"Text", "Strong", "Emphasis"}
    /\ render' = [render EXCEPT !.stack =
                    Advance(Extend(render.stack,
                                   <<to_formatted_text(Child.text, style(Child.tagname))>>))]
    /\ UNCHANGED <<cls, pages, has_focus, last, history, tasks, note>>

\* any other tag: nothing is emitted
ChildOther ==
    /\ HasChild
    /\ Child.tagname \notin {"Section", "Paragraph", "CodeBlock", "TestBlock",
                             "Text", "Strong", "Emphasis"}
    /\ render' = [render EXCEPT !.stack = Advance(render.stack)]
    /\ UNCHANGED <<cls, pages, has_focus, last, history, tasks, note>>

\* return content, to the activation that called (which extends its content with
\* it and goes on) or to render_section
Return ==
    /\ Running
    /\ ~HasChild
    /\ LET n == Len(render.stack)
       IN  IF n > 1
           THEN render' = [render EXCEPT !.stack =
                             Advance(Extend(SubSeq(render.stack, 1, n - 1), Top.content))]
           ELSE render' = [render EXCEPT !.pc = "returned", !.stack = <<>>,
                                         !.result = Top.content]
    /\ UNCHANGED <<cls, pages, has_focus, last, history, tasks, note>>

\* render_section: content.reset(FormattedTextArea(merge_formatted_text(...)))
Install ==
    /\ render.pc = "returned"
    /\ pages' = reset(cls, pages,
                      FormattedTextArea(merge_formatted_text(render.result))).pages
    /\ render' = [render EXCEPT !.pc = "done"]
    /\ UNCHANGED <<cls, has_focus, last, history, tasks, note>>

InitRender ==
    /\ cls = "ContentArea"
    /\ pages \in SeqUpTo(Views, 2)
    /\ has_focus = NoWindow
    /\ last = NoOp
    /\ history = <<>>
    /\ tasks = <<>>
    /\ note = NoTasks
    /\ render \in {[NotRendering EXCEPT !.doc = d] : d \in Docs}

NextRender ==
    \/ RenderSection
    \/ ChildSection
    \/ ChildParagraph
    \/ ChildCodeBlock
    \/ ChildTestBlock
    \/ ChildText
    \/ ChildOther
    \/ Return
    \/ Install

SpecRender == InitRender /\ [][NextRender]_vars

----------------------------------------------------------------------------
(* Claims about the renderer, checked under SpecRender *)

\* C10 as stated: rendering any finite document tree runs to completion and
\* returns its spans without a failure reaching the caller, also when a Section
\* has a Section child.
C10_NoFailure == render.pc # "RecursionError"

\* the rendering is over and has returned its content
Rendered == render.pc \in {"returned", "done"}

\* the spans that are on screen: the fragments of the content, in order
Spans == merge_formatted_text(render.result)

Span(st, text) == [style |-> st, text |-> text]
Separator == Span("", <<"", "", "">>)

RECURSIVE ConcatAll(_)
ConcatAll(ss) == IF ss = <<>> THEN <<>> ELSE Head(ss) \o ConcatAll(Tail(ss))

\* the span of a leaf, in the style of its tag
LeafSpan(leaf) ==
    Span(CASE leaf.tagname = "Text"     -> "class:text"
           [] leaf.tagname = "Strong"   -> "class:strong"
           [] leaf.tagname = "Emphasis" -> "class:emphasis",
         leaf.text)

\* a separator, then the spans of the leaves of the paragraph
ParagraphSpans(p) == <<Separator>> \o [k \in DOMAIN p.children |-> LeafSpan(p.children[k])]

\* a Section whose children are Paragraphs of Text, Strong and Emphasis leaves
OnlyParagraphs(doc) ==
    /\ doc.tagname = "Section"
    /\ \A k \in DOMAIN doc.children :
          /\ doc.children[k].tagname = "Paragraph"
          /\ \A j \in DOMAIN doc.children[k].children :
                doc.children[k].children[j].tagname \in {"Text", "Strong", "Emphasis"}

\* C11: a Section titled T whose children are Paragraphs of Text leaves renders as
\* Title(T) and then, for each Paragraph in order, one separator and the spans of
\* its leaves in order, each leaf in the style of its own tag.
C11_Paragraphs ==
    (Rendered /\ OnlyParagraphs(render.doc)) =>
        Spans = <<Span("class:title", render.doc.title)>>
                  \o ConcatAll([k \in DOMAIN render.doc.children |->
                                   ParagraphSpans(render.doc.children[k])])

\* Section T with the Paragraphs [Text A] and [Text B]:
\* Title(T), separator, Text(A), separator, Text(B)
C11_Witness ==
    /\ render.pc = "done"
    /\ render.doc = Section("T", <<Paragraph(<<Leaf("Text", "A")>>),
                                   Paragraph(<<Leaf("Text", "B")>>)>>)
    /\ Spans = <<Span("class:title", <<"T">>), Separator, Span("class:text", <<"A">>),
                 Separator, Span("class:text", <<"B">>)>>

\* C12: when render_section has completed, whatever the depth of the content stack
\* was, the stack has exactly one page, the newly rendered document; until then the
\* rendering leaves the stack as it was.
C12_RenderResets ==
    /\ render.pc = "done" =>
          /\ Len(pages) = 1
          /\ current(cls, pages) = [widget |-> "FormattedTextArea", text |-> Spans]
    /\ render.pc \in {"running", "returned", "RecursionError"} => pages = render.before

\* a document with text was rendered over a stack of two views
C12_Witness ==
    /\ render.pc = "done" /\ Len(render.before) = 2 /\ Len(pages) = 1
    /\ Len(Spans) >= 3

\* a Section whose children are all CodeBlocks, and at least one
OnlyCodeBlocks(doc) ==
    /\ doc.tagname = "Section"
    /\ doc.children # <<>>
    /\ \A k \in DOMAIN doc.children : doc.children[k].tagname = "CodeBlock"

\* the spans of the code block of the documents, x = 1, a blank line, y = 2: with
\* a highlighter its tokens over the indented text, else one span of text style
CodeSpans(language) ==
    IF language = "python"
    THEN <<Span("class:pygments", <<"  x = 1">>), Span("class:pygments", <<"">>),
           Span("class:pygments", <<"  y = 2">>)>>
    ELSE <<Span("class:text", <<"  x = 1", "", "  y = 2">>)>>

\* C13: for a CodeBlock child the renderer emits one separator and then, when a
\* highlighter resolves for the language, the highlighter's spans over the text
\* indented by two columns, and otherwise exactly one span of text style holding
\* the indented text.
C13_CodeBlock ==
    (Rendered /\ OnlyCodeBlocks(render.doc)) =>
        Spans = <<Span("class:title", render.doc.title)>>
                  \o ConcatAll([k \in DOMAIN render.doc.children |->
                                   <<Separator>> \o CodeSpans(render.doc.children[k].language)])

\* a code block with a highlighter and one without were rendered
C13_Witness ==
    /\ render.pc = "done"
    /\ render.doc = Section("T", <<CodeBlock("python"), CodeBlock("nolang")>>)
    /\ Len(Spans) = 7

\* C14 as stated: on a child whose tag is Section the renderer emits that child's
\* own content: the activation it starts is for the child and begins with the
\* child's title.
C14_SectionInline ==
    \A k \in 2..Len(render.stack) :
        LET caller == render.stack[k - 1]
            child == caller.node.children[caller.i]
        IN  child.tagname = "Section" =>
                /\ render.stack[k].node = child
                /\ render.stack[k].content[1] = <<Span("class:title", child.title)>>

====
